---- MODULE Spec2Model ----
(***************************************************************************)
(* Model of send_http_request (src-tauri/src/http_request.rs): the outer   *)
(* caller, the detached network task, the persist task that streams the    *)
(* body, the shared response record behind its lock, the stored record,    *)
(* the body file, the cookie jar and the cancellation signal.              *)
(***************************************************************************)
EXTENDS Integers, Sequences, FiniteSets, TLC

VARIABLES
    outer_pc,        \* position of send_http_request
    ret,             \* value returned by send_http_request, and the line
                     \* of the return
    net_pc,          \* position of the task spawned at line 472
    resp_tx,         \* oneshot channel of the network result
    raw_response,    \* result of client.execute
    persist_pc,      \* position of the task spawned at line 491
    done_tx,         \* oneshot channel of the final record
    response,        \* the shared record, Arc<Mutex<HttpResponse>>
    lock,            \* holder of the record's mutex
    db,              \* the record stored under the response id
    writes,          \* history of the records written to storage
    cancelled,       \* value of the watch channel cancelled_rx
    cancelled_at,    \* history: the phase of the send when it was set
    file_open,       \* the body file has been opened for writing
    file,            \* bytes of the body file
    chunk,           \* last answer of v.chunk().await
    pos,             \* chunks written to the body file
    written_bytes,   \* local counter of the streaming loop
    clock,           \* last reading of start.elapsed()
    cookie_jar,      \* the jar supplied by the caller
    cookie_store,    \* cookies held by the client's cookie store
    jar_db,          \* the stored jar
    jar_writes,      \* number of writes of the jar to storage
    outer_r,         \* record read by the outer caller on cancellation
    failure,         \* history: the error raised before the network task
    arg,             \* argument of the function under check
    result           \* its result, None before the call

vars == <<outer_pc, ret, net_pc, resp_tx, raw_response, persist_pc, done_tx,
          response, lock, db, writes, cancelled, cancelled_at, file_open, file,
          chunk, pos, written_bytes, clock, cookie_jar, cookie_store, jar_db,
          jar_writes, outer_r, failure, arg, result>>

----------------------------------------------------------------------------
(* Bounds of the model. *)

\* longest body, in chunks
MaxChunks == 2

\* largest reading of the elapsed-time clock, in ms
MaxTime == 1

----------------------------------------------------------------------------
(* Option<T>: None is the empty sequence, Some(x) is <<x>>. *)

None == <<>>

Some(x) == <<x>>

\* i32::MAX of content_length, elapsed and elapsed_headers, scaled down to a
\* 3-bit signed field (-4..3) so that a body of MaxChunks chunks can pass it
\* and a value past it stays within TLC's integers
I32Max == 3

\* `n as i32` for a non-negative usize/u64/u128: keeps the low 32 bits
AsI32(n) ==
    LET m == n % (2 * (I32Max + 1))
    IN  IF m > I32Max THEN m - 2 * (I32Max + 1) ELSE m

----------------------------------------------------------------------------
(* Data. *)

\* chunks a body stream can deliver (each a sequence of bytes)
ChunkSet == {<<"a">>, <<"b", "c">>}

RECURSIVE Concat(_)
Concat(chunks) ==
    IF chunks = <<>> THEN <<>> ELSE Head(chunks) \o Concat(Tail(chunks))

Bodies == UNION {[1..n -> ChunkSet] : n \in 0..MaxChunks}

\* Response::content_length(): absent, the body's size, or another size
\* (a compressed body, a wrong header, a size that needs more than 31 bits)
DeclaredLengths(body) ==
    {None, Some(Len(Concat(body))), Some(Len(Concat(body)) + 1), Some(I32Max + 1)}

\* Display of the errors client.execute can return
NetworkErrors == {"error sending request", "operation timed out"}

\* messages passed to response_err on cancellation (lines 480 and 658)
CancelledMsg == "Request was cancelled"

EphemeralCancelledMsg == "Ephemeral request was cancelled"

\* format!("{e} -> {e:?}") of a transport error (line 636)
NetworkErrMsg(e) == "net: " \o e

\* e.to_string() of a chunk-read error (line 580)
ChunkErrMsg == "error decoding response body"

\* Cookie (models.rs:272-277); name, domain and path are its key in the
\* cookie store, the domain and the path are the same for every cookie here
SidCookie == [name |-> "sid", value |-> "1"]

LangCookie == [name |-> "lang", value |-> "en"]

\* CookieJar.cookies as the caller can supply it: a Vec<Cookie> written by an
\* earlier send, so with one cookie per key
Jars == {<<>>, <<SidCookie>>, <<SidCookie, LangCookie>>}

\* cookies a response can set: none, or a new value for sid
SetCookies == {[name |-> "sid", value |-> "2"]}

Range(s) == {s[i] : i \in DOMAIN s}

\* CookieStore::insert: one cookie per key, the later one wins
StoreInsert(store, c) == {x \in store : x.name # c.name} \cup {c}

\* CookieStore::from_cookies(cookies, true) (line 163): every cookie of the
\* jar is inserted in order, expired or not
RECURSIVE FromCookies(_)
FromCookies(cs) ==
    IF cs = <<>> THEN {}
    ELSE StoreInsert(FromCookies(SubSeq(cs, 1, Len(cs) - 1)), cs[Len(cs)])

\* the store after the Set-Cookie headers of a response (one per key)
StoreResponseCookies(store, cs) ==
    {x \in store : \A c \in cs : c.name # x.name} \cup cs

\* store.iter_any().collect() (lines 611-621): every cookie of the store, in
\* the order of a hash map
IterAny(store) ==
    {s \in [1..Cardinality(store) -> store] : Range(s) = store}

\* Display of the errors of the steps before the network task
RenderErrors == {"variable not found", "invalid template"}

UriError == "invalid uri character"

UrlError == "empty host"

\* format!("Failed to parse URL ..: {}", url_string, e) (lines 196, 208)
UrlErrMsg(e) == "Failed to parse URL: " \o e

MethodError == "invalid HTTP method"

ReadError == "No such file or directory"

MimeError == "FromStrError"

\* format!("Invalid mime for multi-part entry {e:?}") (line 363)
MimeErrMsg(e) == "Invalid mime for multi-part entry " \o e

BuilderError == "builder error"

\* message of the expect at line 158
CookieError == "Failed to deserialize cookie"

ClientBuildError == "client build error"

\* message of the unwrap at lines 461-462
MalformedHeaderError == "unwrap on invalid header"

AuthError == "authentication failed"

\* body_path: the responses directory joined with the id (lines 497-504)
BodyPath == "responses/id"

\* og_response as the caller passes it: a fresh record
OgResponse ==
    [state |-> "Initialized", error |-> None, content_length |-> None,
     elapsed |-> 0, elapsed_headers |-> 0, body_path |-> None, status |-> 0]

\* result of client.execute before the network task has run
NoResponse ==
    [kind |-> "none", err |-> "", content_length |-> None, body |-> <<>>,
     set_cookies |-> {}]

\* return values of send_http_request: Ok(record), Err(e), or a panic
NoRet == [kind |-> "none", val |-> None, line |-> 0]

Ok(r, l) == [kind |-> "Ok", val |-> Some(r), line |-> l]

Err(e, l) == [kind |-> "Err", val |-> Some(e), line |-> l]

Panic(e, l) == [kind |-> "Panic", val |-> Some(e), line |-> l]

----------------------------------------------------------------------------
(* Storage collaborator and response_err. *)

\* update_http_response_if_id as it would be if it were a plain upsert that
\* stores the record whether or not its id exists
UpsertAlways(d, r) == Some(r)

\* update_http_response_if_id: the stored record after the call; nothing is
\* stored when no record with that id exists (db = None)
UpdateIfId(d, r) == IF d = None THEN d ELSE Some(r)

\* the write as an action: the stored record and the history of writes
DbWrite(by, r) ==
    /\ db' = UpdateIfId(db, r)
    /\ writes' = IF db = None THEN writes
                 ELSE Append(writes, [by |-> by, rec |-> r])

\* response_err: a copy of the record it is given, closed with the error
ResponseErr(r, msg) == [r EXCEPT !.state = "Closed", !.error = Some(msg)]

----------------------------------------------------------------------------
(* Initial state: the state after lines 47-66. *)

Init ==
    /\ outer_pc = "render"
    /\ ret = NoRet
    /\ net_pc = "none"
    /\ resp_tx = "open"
    /\ raw_response = NoResponse
    /\ persist_pc = "none"
    /\ done_tx = None
    /\ response = OgResponse
    /\ lock = "free"
    /\ db \in {None, Some(OgResponse)}
    /\ writes = <<>>
    /\ cancelled = FALSE
    /\ cancelled_at = "never"
    /\ file_open = FALSE
    /\ file = <<>>
    /\ chunk = "unread"
    /\ pos = 0
    /\ written_bytes = 0
    /\ clock = 0
    /\ cookie_jar \in {None} \cup {Some(c) : c \in Jars}
    /\ cookie_store = {}
    /\ jar_db = IF cookie_jar = None THEN <<>> ELSE cookie_jar[1]
    /\ jar_writes = 0
    /\ outer_r = None
    /\ failure = None
    /\ arg = None
    /\ result = None


----------------------------------------------------------------------------
(* Groups of variables, for the frame conditions. *)

netVars == <<net_pc, resp_tx, raw_response>>

taskVars == <<persist_pc, done_tx>>

recVars == <<response, lock>>

dbVars == <<db, writes>>

streamVars == <<file_open, file, chunk, pos, written_bytes, clock>>

cancelVars == <<cancelled, cancelled_at>>

jarVars == <<cookie_jar, cookie_store, jar_db, jar_writes>>

pureVars == <<arg, result>>

----------------------------------------------------------------------------
(* The outer caller before the network task is launched. *)

\* return Ok(response_err(&app_handle, &*response.lock().await, msg, ..)):
\* the shared record is read under its lock and is not changed
ReturnResponseErr(msg, line) ==
    /\ lock = "free"
    /\ DbWrite("err", ResponseErr(response, msg))
    /\ ret' = Ok(ResponseErr(response, msg), line)
    /\ outer_pc' = "returned"

ReturnErr(e, line) ==
    /\ ret' = Err(e, line)
    /\ outer_pc' = "returned"
    /\ UNCHANGED dbVars

ReturnPanic(e, line) ==
    /\ ret' = Panic(e, line)
    /\ outer_pc' = "returned"
    /\ UNCHANGED dbVars

Proceed(next) ==
    /\ outer_pc' = next
    /\ UNCHANGED <<ret, failure, dbVars>>

\* Render as it would be if the failure returned a clone of the shared
\* record instead of the record response_err closes
RenderReturnsShared ==
    /\ outer_pc = "render"
    /\ \/ Proceed("client")
       \/ \E e \in RenderErrors :
            /\ failure' = Some(e)
            /\ lock = "free"
            /\ DbWrite("err", ResponseErr(response, e))
            /\ ret' = Ok(response, 78)
            /\ outer_pc' = "returned"
    /\ UNCHANGED <<pureVars, outer_r, netVars, taskVars, recVars, cancelVars,
                   streamVars, jarVars>>

\* lines 68-85: render_http_request
Render ==
    /\ outer_pc = "render"
    /\ \/ Proceed("client")
       \/ \E e \in RenderErrors :
            /\ failure' = Some(e)
            /\ ReturnResponseErr(e, 78)
    /\ UNCHANGED <<pureVars, outer_r, netVars, taskVars, recVars, cancelVars,
                   streamVars, jarVars>>

\* BuildClient as it would be if the cookie store were created empty
\* instead of from the jar's cookies
BuildClientEmptyStore ==
    /\ outer_pc = "client"
    /\ \E outcome \in {"ok", "build_err"}
                      \cup (IF cookie_jar = None \/ cookie_jar[1] = <<>>
                            THEN {} ELSE {"cookie_deserialize"}) :
         CASE outcome = "ok" ->
                /\ Proceed("url")
                /\ cookie_store' = {}
           [] outcome = "cookie_deserialize" ->
                /\ failure' = Some(CookieError)
                /\ ReturnPanic(CookieError, 158)
                /\ UNCHANGED cookie_store
           [] OTHER ->
                /\ failure' = Some(ClientBuildError)
                /\ ReturnErr(ClientBuildError, 179)
                /\ UNCHANGED cookie_store
    /\ UNCHANGED <<pureVars, outer_r, netVars, taskVars, recVars, cancelVars,
                   streamVars, cookie_jar, jar_db, jar_writes>>

\* lines 95-179: the client builder, the cookie store and client.build();
\* a cookie of the jar that does not deserialize panics at line 158, and
\* from_cookies at line 163 is given Ok items only, so its `?` never returns
BuildClient ==
    /\ outer_pc = "client"
    /\ \E outcome \in {"ok", "build_err"}
                      \cup (IF cookie_jar = None \/ cookie_jar[1] = <<>>
                            THEN {} ELSE {"cookie_deserialize"}) :
         CASE outcome = "ok" ->
                /\ Proceed("url")
                /\ cookie_store' = IF cookie_jar = None THEN cookie_store
                                   ELSE FromCookies(cookie_jar[1])
           [] outcome = "cookie_deserialize" ->
                /\ failure' = Some(CookieError)
                /\ ReturnPanic(CookieError, 158)
                /\ UNCHANGED cookie_store
           [] OTHER ->
                /\ failure' = Some(ClientBuildError)
                /\ ReturnErr(ClientBuildError, 179)
                /\ UNCHANGED cookie_store
    /\ UNCHANGED <<pureVars, outer_r, netVars, taskVars, recVars, cancelVars,
                   streamVars, cookie_jar, jar_db, jar_writes>>

\* ParseUrl as it would be if the second parse ended in `?` like the method
\* parse of line 215
ParseUrlPropagates ==
    /\ outer_pc = "url"
    /\ \/ Proceed("method")
       \/ /\ failure' = Some(UriError)
          /\ ReturnResponseErr(UrlErrMsg(UriError), 193)
       \/ /\ failure' = Some(UrlError)
          /\ ReturnErr(UrlError, 205)
    /\ UNCHANGED <<pureVars, outer_r, netVars, taskVars, recVars, cancelVars,
                   streamVars, jarVars>>

\* lines 190-212: Uri::from_str, then Url::from_str
ParseUrl ==
    /\ outer_pc = "url"
    /\ \/ Proceed("method")
       \/ /\ failure' = Some(UriError)
          /\ ReturnResponseErr(UrlErrMsg(UriError), 193)
       \/ /\ failure' = Some(UrlError)
          /\ ReturnResponseErr(UrlErrMsg(UrlError), 205)
    /\ UNCHANGED <<pureVars, outer_r, netVars, taskVars, recVars, cancelVars,
                   streamVars, jarVars>>

\* lines 214-216: Method::from_str(..).map_err(..)?
ParseMethod ==
    /\ outer_pc = "method"
    /\ \/ Proceed("body")
       \/ /\ failure' = Some(MethodError)
          /\ ReturnErr(MethodError, 215)
    /\ UNCHANGED <<pureVars, outer_r, netVars, taskVars, recVars, cancelVars,
                   streamVars, jarVars>>

\* BuildBody as it would be if the file were read with expect: a file that
\* cannot be read panics
BuildBodyReadPanics ==
    /\ outer_pc = "body"
    /\ \/ Proceed("build")
       \/ \E line \in {312, 343} :
            /\ failure' = Some(ReadError)
            /\ ReturnPanic(ReadError, line)
       \/ /\ failure' = Some(MimeError)
          /\ ReturnResponseErr(MimeErrMsg(MimeError), 360)
    /\ UNCHANGED <<pureVars, outer_r, netVars, taskVars, recVars, cancelVars,
                   streamVars, jarVars>>

\* lines 218-412: headers and body; a binary body's file (line 312) or a
\* multipart entry's file (line 343) cannot be read, or a multipart entry's
\* content type is not a mime type (line 360)
BuildBody ==
    /\ outer_pc = "body"
    /\ \/ Proceed("build")
       \/ \E line \in {312, 343} :
            /\ failure' = Some(ReadError)
            /\ ReturnResponseErr(ReadError, line)
       \/ /\ failure' = Some(MimeError)
          /\ ReturnResponseErr(MimeErrMsg(MimeError), 360)
    /\ UNCHANGED <<pureVars, outer_r, netVars, taskVars, recVars, cancelVars,
                   streamVars, jarVars>>

\* lines 414-425: request_builder.build()
BuildRequest ==
    /\ outer_pc = "build"
    /\ \/ Proceed("auth")
       \/ /\ failure' = Some(BuilderError)
          /\ ReturnResponseErr(BuilderError, 418)
    /\ UNCHANGED <<pureVars, outer_r, netVars, taskVars, recVars, cancelVars,
                   streamVars, jarVars>>

\* lines 429-474: authentication, then the network task is spawned
\* (resp_tx and done_tx are created, start is taken)
ApplyAuth ==
    /\ outer_pc = "auth"
    /\ \E outcome \in {"no_auth", "ok", "auth_err", "bad_header"} :
         CASE outcome \in {"no_auth", "ok"} ->
                /\ Proceed("select1")
                /\ net_pc' = "running"
           [] outcome = "auth_err" ->
                /\ failure' = Some(AuthError)
                /\ ReturnResponseErr(AuthError, 449)
                /\ UNCHANGED net_pc
           [] OTHER ->
                /\ failure' = Some(MalformedHeaderError)
                /\ ReturnPanic(MalformedHeaderError, 461)
                /\ UNCHANGED net_pc
    /\ UNCHANGED <<pureVars, outer_r, resp_tx, raw_response, taskVars,
                   recVars, cancelVars, streamVars, jarVars>>

----------------------------------------------------------------------------
(* The network task (lines 472-474) and the first race (lines 476-482). *)

\* what client.execute can answer
ExecuteResults ==
    {[kind |-> "err", err |-> e, content_length |-> None, body |-> <<>>,
      set_cookies |-> {}] : e \in NetworkErrors}
    \cup
    UNION {{[kind |-> "ok", err |-> "", content_length |-> l, body |-> b,
             set_cookies |-> c] :
               l \in DeclaredLengths(b), c \in SUBSET SetCookies} :
           b \in Bodies}

\* NetExecute as it would be if the network task stored the arrival of the
\* headers itself, whether or not the caller still listens
NetExecuteStoresHeaders ==
    /\ net_pc = "running"
    /\ \E r \in ExecuteResults :
         /\ cookie_store' = IF r.kind = "ok" /\ cookie_jar # None
                            THEN StoreResponseCookies(cookie_store,
                                                      r.set_cookies)
                            ELSE cookie_store
         /\ IF outer_pc = "select1"
            THEN raw_response' = r /\ resp_tx' = "sent"
            ELSE raw_response' = raw_response /\ resp_tx' = "dropped"
         /\ IF r.kind = "ok"
            THEN DbWrite("connected",
                         [response EXCEPT !.state = "Connected"])
            ELSE UNCHANGED dbVars
    /\ net_pc' = "done"
    /\ UNCHANGED <<pureVars, outer_pc, ret, outer_r, failure, taskVars,
                   recVars, cancelVars, streamVars, cookie_jar, jar_db,
                   jar_writes>>

\* NetExecute as it would be if the network task synced the jar itself when
\* its result finds no receiver
NetExecuteSyncsJar ==
    /\ net_pc = "running"
    /\ \E r \in ExecuteResults :
         /\ cookie_store' = IF r.kind = "ok" /\ cookie_jar # None
                            THEN StoreResponseCookies(cookie_store,
                                                      r.set_cookies)
                            ELSE cookie_store
         /\ IF outer_pc = "select1"
            THEN /\ raw_response' = r
                 /\ resp_tx' = "sent"
                 /\ UNCHANGED <<jar_db, jar_writes>>
            ELSE /\ raw_response' = raw_response
                 /\ resp_tx' = "dropped"
                 /\ jar_db' \in IterAny(cookie_store')
                 /\ jar_writes' = jar_writes + 1
    /\ net_pc' = "done"
    /\ UNCHANGED <<pureVars, outer_pc, ret, outer_r, failure, taskVars,
                   recVars, dbVars, cancelVars, streamVars, cookie_jar>>

\* line 473: let _ = resp_tx.send(client.execute(sendable_req).await);
\* the client's cookie store takes the response's cookies; the result is
\* dropped when the receiver is gone
NetExecute ==
    /\ net_pc = "running"
    /\ \E r \in ExecuteResults :
         /\ cookie_store' = IF r.kind = "ok" /\ cookie_jar # None
                            THEN StoreResponseCookies(cookie_store,
                                                      r.set_cookies)
                            ELSE cookie_store
         /\ IF outer_pc = "select1"
            THEN raw_response' = r /\ resp_tx' = "sent"
            ELSE raw_response' = raw_response /\ resp_tx' = "dropped"
    /\ net_pc' = "done"
    /\ UNCHANGED <<pureVars, outer_pc, ret, outer_r, failure, taskVars,
                   recVars, dbVars, cancelVars, streamVars, cookie_jar,
                   jar_db, jar_writes>>

\* line 477 and lines 484-491: the result arrives, the persist task is spawned
Select1Response ==
    /\ outer_pc = "select1"
    /\ resp_tx = "sent"
    /\ resp_tx' = "received"
    /\ persist_pc' = "start"
    /\ outer_pc' = "select2"
    /\ UNCHANGED <<pureVars, ret, outer_r, failure, net_pc, raw_response,
                   done_tx, recVars, dbVars, cancelVars, streamVars,
                   jarVars>>

\* lines 478-481: cancellation wins; the network task is left running
Select1Cancelled ==
    /\ outer_pc = "select1"
    /\ cancelled
    /\ ReturnResponseErr(CancelledMsg, 480)
    /\ resp_tx' = IF resp_tx = "sent" THEN "dropped" ELSE resp_tx
    /\ UNCHANGED <<pureVars, outer_r, failure, net_pc, raw_response,
                   taskVars, recVars, cancelVars, streamVars, jarVars>>

\* positions of the persist task in the streaming loop (lines 554-586)
Streaming == {"loop", "chunk_write", "chunk_update"}

\* the phase of the send: before the headers are stored, while the body is
\* streamed, or after the stream
Phase ==
    CASE persist_pc \in {"none", "start"} -> "before_headers"
      [] persist_pc \in {"open", "open_failed"} -> "connected"
      [] persist_pc \in Streaming -> "streaming"
      [] OTHER -> "after_stream"

\* the caller sets the watch channel to true
Cancel ==
    /\ ~cancelled
    /\ outer_pc # "returned"
    /\ cancelled' = TRUE
    /\ cancelled_at' = Phase
    /\ UNCHANGED <<pureVars, outer_pc, ret, outer_r, failure, netVars,
                   taskVars, recVars, dbVars, streamVars, jarVars>>

----------------------------------------------------------------------------
(* The persist task (lines 491-644). *)

outerVars == <<outer_pc, ret, outer_r, failure>>

\* PersistConnected as it would be if line 508 were missing: the record
\* becomes Connected without its body_path
PersistConnectedNoPath ==
    /\ persist_pc = "start"
    /\ raw_response.kind = "ok"
    /\ lock = "free"
    /\ \E t \in clock..MaxTime :
         /\ clock' = t
         /\ response' = [response EXCEPT !.elapsed_headers = AsI32(t),
                                         !.status = 200,
                                         !.state = "Connected"]
    /\ DbWrite("connected", response')
    /\ persist_pc' = "open"
    /\ UNCHANGED <<pureVars, outerVars, netVars, done_tx, lock, cancelVars,
                   file_open, file, chunk, pos, written_bytes, jarVars>>

\* lines 494-542: the headers are in; the record becomes Connected
PersistConnected ==
    /\ persist_pc = "start"
    /\ raw_response.kind = "ok"
    /\ lock = "free"
    /\ \E t \in clock..MaxTime :
         /\ clock' = t
         /\ response' = [response EXCEPT !.body_path = Some(BodyPath),
                                         !.elapsed_headers = AsI32(t),
                                         !.status = 200,
                                         !.state = "Connected"]
    /\ DbWrite("connected", response')
    /\ persist_pc' = "open"
    /\ UNCHANGED <<pureVars, outerVars, netVars, done_tx, lock, cancelVars,
                   file_open, file, chunk, pos, written_bytes, jarVars>>

\* lines 545-553: the body file is created or truncated; when it cannot be
\* opened the expect at line 551 panics, which ends the task and drops its
\* done_tx unsent
PersistOpenFile ==
    /\ persist_pc = "open"
    /\ \E opened \in BOOLEAN :
         IF opened
         THEN /\ file_open' = TRUE
              /\ file' = <<>>
              /\ written_bytes' = 0
              /\ persist_pc' = "loop"
         ELSE /\ persist_pc' = "open_failed"
              /\ UNCHANGED <<file_open, file, written_bytes>>
    /\ UNCHANGED <<pureVars, outerVars, netVars, done_tx, recVars, dbVars,
                   cancelVars, chunk, pos, clock, jarVars>>

\* what v.chunk().await can answer after pos chunks
ChunkResults ==
    (IF pos < Len(raw_response.body) THEN {"some"} ELSE {"none"}) \cup {"err"}

\* PersistChunk as it would be if the flag were read after the chunk had
\* gone to the file: a chunk pulled with the flag set is still written
PersistChunkWritesThenChecks ==
    /\ persist_pc = "loop"
    /\ \E c \in ChunkResults :
         /\ chunk' = c
         /\ IF cancelled
            THEN /\ persist_pc' = "stopped"
                 /\ file' = IF c = "some"
                            THEN file \o raw_response.body[pos + 1]
                            ELSE file
                 /\ UNCHANGED <<recVars, dbVars, clock>>
            ELSE /\ UNCHANGED file
                 /\ CASE c = "some" ->
                        /\ lock = "free"
                        /\ lock' = "persist"
                        /\ \E t \in clock..MaxTime :
                             /\ clock' = t
                             /\ response' =
                                  [response EXCEPT !.elapsed = AsI32(t)]
                        /\ persist_pc' = "chunk_write"
                        /\ UNCHANGED dbVars
                   [] c = "none" ->
                        /\ persist_pc' = "final"
                        /\ UNCHANGED <<recVars, dbVars, clock>>
                   [] OTHER ->
                        /\ lock = "free"
                        /\ DbWrite("err", ResponseErr(response, ChunkErrMsg))
                        /\ persist_pc' = "final"
                        /\ UNCHANGED <<recVars, clock>>
    /\ UNCHANGED <<pureVars, outerVars, netVars, done_tx, cancelVars,
                   file_open, pos, written_bytes, jarVars>>

\* lines 555-563 and 573-585: the next chunk, the cancellation flag, and the
\* three arms, the Some arm up to its first await
PersistChunk ==
    /\ persist_pc = "loop"
    /\ \E c \in ChunkResults :
         /\ chunk' = c
         /\ IF cancelled
            THEN /\ persist_pc' = "stopped"
                 /\ UNCHANGED <<recVars, dbVars, clock>>
            ELSE CASE c = "some" ->
                        /\ lock = "free"
                        /\ lock' = "persist"
                        /\ \E t \in clock..MaxTime :
                             /\ clock' = t
                             /\ response' =
                                  [response EXCEPT !.elapsed = AsI32(t)]
                        /\ persist_pc' = "chunk_write"
                        /\ UNCHANGED dbVars
                   [] c = "none" ->
                        /\ persist_pc' = "final"
                        /\ UNCHANGED <<recVars, dbVars, clock>>
                   [] OTHER ->
                        /\ lock = "free"
                        /\ DbWrite("err", ResponseErr(response, ChunkErrMsg))
                        /\ persist_pc' = "final"
                        /\ UNCHANGED <<recVars, clock>>
    /\ UNCHANGED <<pureVars, outerVars, netVars, done_tx, cancelVars,
                   file_open, file, pos, written_bytes, jarVars>>

\* lines 564-565: f.write_all(&bytes), f.flush()
PersistChunkWrite ==
    /\ persist_pc = "chunk_write"
    /\ file' = file \o raw_response.body[pos + 1]
    /\ persist_pc' = "chunk_update"
    /\ UNCHANGED <<pureVars, outerVars, netVars, done_tx, recVars, dbVars,
                   cancelVars, file_open, chunk, pos, written_bytes, clock,
                   jarVars>>

\* PersistChunkUpdate as it would be if the guard taken at line 562 were kept
\* past the end of the arm
PersistChunkUpdateKeepsLock ==
    /\ persist_pc = "chunk_update"
    /\ written_bytes' = written_bytes + Len(raw_response.body[pos + 1])
    /\ response' = [response EXCEPT
                      !.content_length = Some(AsI32(written_bytes'))]
    /\ DbWrite("chunk", response')
    /\ lock' = lock
    /\ pos' = pos + 1
    /\ persist_pc' = "loop"
    /\ UNCHANGED <<pureVars, outerVars, netVars, done_tx, cancelVars,
                   file_open, file, chunk, clock, jarVars>>

\* lines 566-572: the running count is stored, the lock is released
PersistChunkUpdate ==
    /\ persist_pc = "chunk_update"
    /\ written_bytes' = written_bytes + Len(raw_response.body[pos + 1])
    /\ response' = [response EXCEPT
                      !.content_length = Some(AsI32(written_bytes'))]
    /\ DbWrite("chunk", response')
    /\ lock' = "free"
    /\ pos' = pos + 1
    /\ persist_pc' = "loop"
    /\ UNCHANGED <<pureVars, outerVars, netVars, done_tx, cancelVars,
                   file_open, file, chunk, clock, jarVars>>

\* PersistFinal as it would be if line 558 were a break: the task that saw
\* the flag goes on to the final block
PersistFinalAfterBreak ==
    /\ persist_pc \in {"final", "stopped"}
    /\ lock = "free"
    /\ response' = [response EXCEPT
                      !.content_length =
                          IF raw_response.content_length # None
                          THEN Some(AsI32(raw_response.content_length[1]))
                          ELSE Some(AsI32(written_bytes)),
                      !.state = "Closed"]
    /\ DbWrite("closed", response')
    /\ persist_pc' = "cookies"
    /\ UNCHANGED <<pureVars, outerVars, netVars, done_tx, lock, cancelVars,
                   streamVars, jarVars>>

\* lines 589-600: the final content length, state Closed
PersistFinal ==
    /\ persist_pc = "final"
    /\ lock = "free"
    /\ response' = [response EXCEPT
                      !.content_length =
                          IF raw_response.content_length # None
                          THEN Some(AsI32(raw_response.content_length[1]))
                          ELSE Some(AsI32(written_bytes)),
                      !.state = "Closed"]
    /\ DbWrite("closed", response')
    /\ persist_pc' = "cookies"
    /\ UNCHANGED <<pureVars, outerVars, netVars, done_tx, lock, cancelVars,
                   streamVars, jarVars>>

\* PersistCookies as it would be if the jar took the cookies of the
\* response's Set-Cookie headers instead of the cookies of the store
PersistCookiesResponseOnly ==
    /\ persist_pc = "cookies"
    /\ IF cookie_jar = None
       THEN UNCHANGED <<jar_db, jar_writes>>
       ELSE \E json_cookies \in IterAny(raw_response.set_cookies),
               stored \in BOOLEAN :
              /\ jar_db' = IF stored THEN json_cookies ELSE jar_db
              /\ jar_writes' = IF stored THEN jar_writes + 1 ELSE jar_writes
    /\ persist_pc' = "clone"
    /\ UNCHANGED <<pureVars, outerVars, netVars, done_tx, recVars, dbVars,
                   cancelVars, streamVars, cookie_jar, cookie_store>>

\* lines 603-629: the task's copy of the jar takes the cookie store's
\* cookies and is stored; a failed upsert is logged
PersistCookies ==
    /\ persist_pc = "cookies"
    /\ IF cookie_jar = None
       THEN UNCHANGED <<jar_db, jar_writes>>
       ELSE \E json_cookies \in IterAny(cookie_store), stored \in BOOLEAN :
              /\ jar_db' = IF stored THEN json_cookies ELSE jar_db
              /\ jar_writes' = IF stored THEN jar_writes + 1 ELSE jar_writes
    /\ persist_pc' = "clone"
    /\ UNCHANGED <<pureVars, outerVars, netVars, done_tx, recVars, dbVars,
                   cancelVars, streamVars, cookie_jar, cookie_store>>

\* PersistExecuteErr as it would be if the cookie sync of lines 603-629 came
\* after the match instead of inside its Ok arm
PersistExecuteErrSyncsJar ==
    /\ persist_pc = "start"
    /\ raw_response.kind = "err"
    /\ lock = "free"
    /\ DbWrite("err", ResponseErr(response, NetworkErrMsg(raw_response.err)))
    /\ IF cookie_jar = None
       THEN UNCHANGED <<jar_db, jar_writes>>
       ELSE \E json_cookies \in IterAny(cookie_store) :
              /\ jar_db' = json_cookies
              /\ jar_writes' = jar_writes + 1
    /\ persist_pc' = "clone"
    /\ UNCHANGED <<pureVars, outerVars, netVars, done_tx, recVars,
                   cancelVars, streamVars, cookie_jar, cookie_store>>

\* lines 631-639: client.execute failed; response_err closes a copy
PersistExecuteErr ==
    /\ persist_pc = "start"
    /\ raw_response.kind = "err"
    /\ lock = "free"
    /\ DbWrite("err", ResponseErr(response, NetworkErrMsg(raw_response.err)))
    /\ persist_pc' = "clone"
    /\ UNCHANGED <<pureVars, outerVars, netVars, done_tx, recVars,
                   cancelVars, streamVars, jarVars>>

\* lines 642-643: the shared record is cloned and sent; the send panics when
\* the receiver is gone
PersistDone ==
    /\ persist_pc = "clone"
    /\ lock = "free"
    /\ IF outer_pc = "select2"
       THEN done_tx' = Some(response) /\ persist_pc' = "done"
       ELSE done_tx' = done_tx /\ persist_pc' = "panicked"
    /\ UNCHANGED <<pureVars, outerVars, netVars, recVars, dbVars, cancelVars,
                   streamVars, jarVars>>

----------------------------------------------------------------------------
(* The second race of the outer caller (lines 648-662). *)

\* line 649: the persist task's record is returned
Select2Done ==
    /\ outer_pc = "select2"
    /\ done_tx # None
    /\ ret' = Ok(done_tx[1], 649)
    /\ outer_pc' = "returned"
    /\ UNCHANGED <<pureVars, outer_r, failure, netVars, taskVars, recVars,
                   dbVars, cancelVars, streamVars, jarVars>>

\* lines 650-651: cancellation wins; the record is read back from storage
Select2Cancelled ==
    /\ outer_pc = "select2"
    /\ cancelled
    /\ outer_r' = db
    /\ outer_pc' = IF db # None THEN "cancel_write" ELSE "cancel_ephemeral"
    /\ UNCHANGED <<pureVars, ret, failure, netVars, taskVars, recVars,
                   dbVars, cancelVars, streamVars, jarVars>>

\* lines 652-656: the record read is closed and written
Select2Write ==
    /\ outer_pc = "cancel_write"
    /\ DbWrite("cancel", [outer_r[1] EXCEPT !.state = "Closed"])
    /\ ret' = Ok([outer_r[1] EXCEPT !.state = "Closed"], 654)
    /\ outer_pc' = "returned"
    /\ UNCHANGED <<pureVars, outer_r, failure, netVars, taskVars, recVars,
                   cancelVars, streamVars, jarVars>>

\* lines 657-659: no stored record; response_err on the shared record
Select2Ephemeral ==
    /\ outer_pc = "cancel_ephemeral"
    /\ ReturnResponseErr(EphemeralCancelledMsg, 658)
    /\ UNCHANGED <<pureVars, outer_r, failure, netVars, taskVars, recVars,
                   cancelVars, streamVars, jarVars>>

----------------------------------------------------------------------------

Next ==
    \/ Render
    \/ BuildClient
    \/ ParseUrl
    \/ ParseMethod
    \/ BuildBody
    \/ BuildRequest
    \/ ApplyAuth
    \/ NetExecute
    \/ Select1Response
    \/ Select1Cancelled
    \/ Cancel
    \/ PersistConnected
    \/ PersistOpenFile
    \/ PersistChunk
    \/ PersistChunkWrite
    \/ PersistChunkUpdate
    \/ PersistFinal
    \/ PersistCookies
    \/ PersistExecuteErr
    \/ PersistDone
    \/ Select2Done
    \/ Select2Cancelled
    \/ Select2Write
    \/ Select2Ephemeral

Spec == Init /\ [][Next]_vars

\* the steps of the caller's own future
OuterStep ==
    \/ Render
    \/ BuildClient
    \/ ParseUrl
    \/ ParseMethod
    \/ BuildBody
    \/ BuildRequest
    \/ ApplyAuth
    \/ Select1Response
    \/ Select1Cancelled
    \/ Select2Done
    \/ Select2Cancelled
    \/ Select2Write
    \/ Select2Ephemeral

\* the steps of the task spawned at line 491
PersistStep ==
    \/ PersistConnected
    \/ PersistOpenFile
    \/ PersistChunk
    \/ PersistChunkWrite
    \/ PersistChunkUpdate
    \/ PersistFinal
    \/ PersistCookies
    \/ PersistExecuteErr
    \/ PersistDone

\* the runtime polls every future that can make progress, and the transport
\* answers or fails every request and every chunk read; nothing obliges the
\* caller of the send to cancel it
SpecLive ==
    /\ Spec
    /\ WF_vars(OuterStep)
    /\ WF_vars(NetExecute)
    /\ WF_vars(PersistStep)

\* a send without a cookie jar: the jar takes no part in the locking
InitLock ==
    /\ Init
    /\ cookie_jar = None

\* the sends without a jar, under the scheduling of SpecLive
SpecLock ==
    /\ InitLock
    /\ [][Next]_vars
    /\ WF_vars(OuterStep)
    /\ WF_vars(NetExecute)
    /\ WF_vars(PersistStep)

----------------------------------------------------------------------------
(* Functions of the request set-up, each checked in a specification of its *)
(* own: arg is the argument, result the sequence of values computed from   *)
(* it, and the send itself stays idle.                                     *)

sendVars == <<outer_pc, ret, netVars, taskVars, recVars, dbVars, cancelVars,
              streamVars, jarVars, outer_r, failure>>

\* no send is in progress
Idle ==
    /\ outer_pc = "none"
    /\ ret = NoRet
    /\ net_pc = "none"
    /\ resp_tx = "open"
    /\ raw_response = NoResponse
    /\ persist_pc = "none"
    /\ done_tx = None
    /\ response = OgResponse
    /\ lock = "free"
    /\ db = None
    /\ writes = <<>>
    /\ cancelled = FALSE
    /\ cancelled_at = "never"
    /\ file_open = FALSE
    /\ file = <<>>
    /\ chunk = "unread"
    /\ pos = 0
    /\ written_bytes = 0
    /\ clock = 0
    /\ cookie_jar = None
    /\ cookie_store = {}
    /\ jar_db = <<>>
    /\ jar_writes = 0
    /\ outer_r = None
    /\ failure = None

\* str::starts_with and str::ends_with on strings as sequences of characters
StartsWith(s, prefix) ==
    Len(prefix) <= Len(s) /\ SubSeq(s, 1, Len(prefix)) = prefix

EndsWith(s, suffix) ==
    /\ Len(suffix) <= Len(s)
    /\ SubSeq(s, Len(s) - Len(suffix) + 1, Len(s)) = suffix

\* position of the first character of s that is in set, Len(s) + 1 if none
FirstOf(s, set) ==
    IF \E i \in DOMAIN s : s[i] \in set
    THEN CHOOSE i \in DOMAIN s :
             s[i] \in set /\ \A j \in 1..(i - 1) : s[j] \notin set
    ELSE Len(s) + 1

----------------------------------------------------------------------------
(* ensure_proto (lines 665-686) and its call (lines 87-92). *)

HttpPrefix == <<"h", "t", "t", "p", ":", "/", "/">>

HttpsPrefix == <<"h", "t", "t", "p", "s", ":", "/", "/">>

\* the TLDs that force HTTPS (line 677)
HttpsTlds == {<<".", "a", "p", "p">>, <<".", "d", "e", "v">>, <<".", "p", "a", "g", "e">>}

Digits == {"0", "1", "2", "3", "4", "5", "6", "7", "8", "9"}

\* characters a host cannot hold
ForbiddenHostChars == {" "}

\* Url::from_str(s).host() of an http URL: the authority ends at the first
\* "/", "?" or "#", the host at the first ":", the rest is the port; None
\* when the parse fails (empty host, forbidden character, bad port)
UrlHost(s) ==
    LET after == SubSeq(s, Len(HttpPrefix) + 1, Len(s))
        authority == SubSeq(after, 1, FirstOf(after, {"/", "?", "#"}) - 1)
        colon == FirstOf(authority, {":"})
        host == SubSeq(authority, 1, colon - 1)
        port == SubSeq(authority, colon + 1, Len(authority))
    IN  IF \/ ~StartsWith(s, HttpPrefix)
           \/ host = <<>>
           \/ \E i \in DOMAIN host : host[i] \in ForbiddenHostChars
           \/ \E i \in DOMAIN port : port[i] \notin Digits
        THEN None
        ELSE Some(host)

\* ensure_proto as it would be if the suffix were looked for at the end of
\* the whole URL instead of the end of its host
ensure_proto_whole(url_str) ==
    IF StartsWith(url_str, HttpPrefix) \/ StartsWith(url_str, HttpsPrefix)
    THEN url_str
    ELSE IF \E tld \in HttpsTlds : EndsWith(url_str, tld)
         THEN HttpsPrefix \o url_str
         ELSE HttpPrefix \o url_str

\* lines 665-686
ensure_proto(url_str) ==
    IF StartsWith(url_str, HttpPrefix) \/ StartsWith(url_str, HttpsPrefix)
    THEN url_str
    ELSE LET u == UrlHost(HttpPrefix \o url_str)
         IN  IF u # None /\ \E tld \in HttpsTlds : EndsWith(u[1], tld)
             THEN HttpsPrefix \o url_str
             ELSE HttpPrefix \o url_str

\* the URLs a request is sent to, in parts: scheme, host, and what follows
\* the host
UrlSchemes == {<<>>, HttpPrefix, HttpsPrefix}

ExampleDev == <<"e", "x", "a", "m", "p", "l", "e", ".", "d", "e", "v">>

ExampleCom == <<"e", "x", "a", "m", "p", "l", "e", ".", "c", "o", "m">>

XTest == <<"x", ".", "t", "e", "s", "t">>

\* hosts Url::from_str accepts
ValidHosts ==
    {ExampleDev, ExampleCom, XTest, <<"m", "y", ".", "a", "p", "p">>, <<"a", ".", "p", "a", "g", "e">>, <<"d", "e", "v">>,
     <<"d", "e", "v", ".", "e", "x", "a", "m", "p", "l", "e", ".", "c", "o", "m">>}

\* a host it rejects
InvalidHosts == {<<"m", "y", " ", "s", "i", "t", "e", ".", "d", "e", "v">>}

UrlRests ==
    {<<>>, <<"/">>, <<"/", "a", ".", "d", "e", "v">>, <<":", "8", "0", "8", "0">>, <<":", "8", "0", "/", "x", ".", "a", "p", "p">>, <<"?", "q", "=", ".", "p", "a", "g", "e">>,
     <<"#", ".", "d", "e", "v">>}

UrlParts ==
    [scheme : UrlSchemes, host : ValidHosts \cup InvalidHosts, rest : UrlRests]

\* request.url: the parts as one string
UrlString(parts) == parts.scheme \o parts.host \o parts.rest

InitProto ==
    /\ Idle
    /\ arg \in UrlParts
    /\ result = <<>>

\* line 88: url_string = ensure_proto(&url_string)
EnsureProto ==
    /\ result = <<>>
    /\ result' = <<ensure_proto(UrlString(arg))>>
    /\ UNCHANGED <<arg, sendVars>>

\* lines 89-91: a URL still without http:// or https:// gets http://
PrefixFallback ==
    /\ Len(result) = 1
    /\ result' = Append(result,
                        IF ~StartsWith(result[1], HttpPrefix)
                           /\ ~StartsWith(result[1], HttpsPrefix)
                        THEN HttpPrefix \o result[1]
                        ELSE result[1])
    /\ UNCHANGED <<arg, sendVars>>

NextProto == EnsureProto \/ PrefixFallback

SpecProto == InitProto /\ [][NextProto]_vars

----------------------------------------------------------------------------
(* The multipart body (lines 320-402). *)

\* longest form, in entries
MaxForm == 2

\* an entry of the form array: the JSON values under its keys; get_bool and
\* get_str (lines 688-700) read an absent key as true and as ""
FormEntries ==
    [enabled : {"true", "false", "absent"},
     name : {"", "a"},
     value : {"v"},
     file : {"", "pic.png", "data.zzz", "gone.txt"},
     contentType : {"", "text/plain", "not a mime"}]

Forms == UNION {[1..n -> FormEntries] : n \in 0..MaxForm}

\* fs::read(file_path) succeeds
Readable(path) == path # "gone.txt"

\* Part::mime_str(s) succeeds
IsMime(str) == str \in {"text/plain", "image/png", "application/octet-stream"}

\* mime_guess::from_path(path).first_or(default).essence_str()
MimeGuess(path) ==
    IF path = "pic.png" THEN "image/png" ELSE "application/octet-stream"

\* PathBuf::from(file_path).file_name()
FileName(path) == path

\* Part as it would be if the guess from the file's path came before the
\* entry's contentType
PartGuessFirst(p) ==
    [name |-> p.name,
     body |-> IF p.file = "" THEN <<"text", p.value>> ELSE <<"bytes", p.file>>,
     mime |-> IF p.file # "" THEN Some(MimeGuess(p.file))
              ELSE IF p.contentType # "" THEN Some(p.contentType)
              ELSE None,
     file_name |-> IF p.file = "" THEN None ELSE Some(FileName(p.file))]

\* lines 335-400: the part of an entry whose file can be read and whose
\* contentType is a mime type
Part(p) ==
    [name |-> p.name,
     body |-> IF p.file = "" THEN <<"text", p.value>> ELSE <<"bytes", p.file>>,
     mime |-> IF p.contentType # "" THEN Some(p.contentType)
              ELSE IF p.file # "" THEN Some(MimeGuess(p.file))
              ELSE None,
     file_name |-> IF p.file = "" THEN None ELSE Some(FileName(p.file))]

\* lines 326-400: the loop over the entries, with the parts built so far;
\* the first file that cannot be read or contentType that is not a mime
\* type ends the send (lines 343 and 360)
RECURSIVE MultipartForm(_, _)
MultipartForm(fd, parts) ==
    IF fd = <<>> THEN [kind |-> "form", parts |-> parts, line |-> 402]
    ELSE LET p == Head(fd)
         IN  IF p.enabled = "false" \/ p.name = ""
             THEN MultipartForm(Tail(fd), parts)
             ELSE IF p.file # "" /\ ~Readable(p.file)
             THEN [kind |-> "error", parts |-> <<>>, line |-> 343]
             ELSE IF p.contentType # "" /\ ~IsMime(p.contentType)
             THEN [kind |-> "error", parts |-> <<>>, line |-> 360]
             ELSE MultipartForm(Tail(fd), Append(parts, Part(p)))

InitMultipart ==
    /\ Idle
    /\ arg \in Forms
    /\ result = <<>>

\* lines 320-402 for a body of type multipart/form-data with a form array
BuildMultipart ==
    /\ result = <<>>
    /\ result' = <<MultipartForm(arg, <<>>)>>
    /\ UNCHANGED <<arg, sendVars>>

NextMultipart == BuildMultipart

SpecMultipart == InitMultipart /\ [][NextMultipart]_vars

----------------------------------------------------------------------------
(* The GraphQL body (lines 266-277). *)

\* longest query, in characters
MaxQuery == 2

Quote == "\""

Backslash == "\\"

Newline == "\n"

\* str::trim removes these
Whitespace == {" ", Newline}

IsBlank(str) == \A i \in DOMAIN str : str[i] \in Whitespace

\* the text of a query: a letter and the characters JSON escapes
QueryChars == {"n", Quote, Backslash, Newline}

Queries == UNION {[1..n -> QueryChars] : n \in 0..MaxQuery}

\* the text of the variables field: blank, or JSON with and without blanks
\* around it
VariablesTexts ==
    {<<>>, <<" ">>, <<" ", Newline>>, <<"{", Quote, "x", Quote, ":", "1", "}">>, <<" ", "{", Quote, "x", Quote, ":", "1", "}", " ">>, <<Quote, "s", Quote>>}

\* request.body: the JSON values under the keys query and variables; None
\* is an absent key, which get_str_h (lines 702-707) reads as ""
GraphqlBodies ==
    [query : {None} \cup {Some(q) : q \in Queries},
     variables : {None} \cup {Some(v) : v \in VariablesTexts}]

get_str_h(v, key) == IF v[key] = None THEN <<>> ELSE v[key][1]

\* serde_json::to_string as it would be if it only put quotes around the
\* text
ToJsonStringUnescaped(str) == <<Quote>> \o str \o <<Quote>>

RECURSIVE JsonEscape(_)
JsonEscape(str) ==
    IF str = <<>> THEN <<>>
    ELSE (CASE Head(str) = Quote -> <<Backslash, Quote>>
            [] Head(str) = Backslash -> <<Backslash, Backslash>>
            [] Head(str) = Newline -> <<Backslash, "n">>
            [] OTHER -> <<Head(str)>>) \o JsonEscape(Tail(str))

\* serde_json::to_string(query) of a string: a JSON string literal
ToJsonString(str) == <<Quote>> \o JsonEscape(str) \o <<Quote>>

QueryKey == <<"{", Quote, "q", "u", "e", "r", "y", Quote, ":">>

VariablesKey == <<",", Quote, "v", "a", "r", "i", "a", "b", "l", "e", "s", Quote, ":">>

\* lines 267-276
GraphqlBody(request_body) ==
    LET query == get_str_h(request_body, "query")
        variables == get_str_h(request_body, "variables")
    IN  IF IsBlank(variables)
        THEN QueryKey \o ToJsonString(query) \o <<"}">>
        ELSE QueryKey \o ToJsonString(query) \o VariablesKey \o variables
                 \o <<"}">>

InitGraphql ==
    /\ Idle
    /\ arg \in GraphqlBodies
    /\ result = <<>>

\* lines 266-277 for a body of type graphql
BuildGraphql ==
    /\ result = <<>>
    /\ result' = <<GraphqlBody(arg)>>
    /\ UNCHANGED <<arg, sendVars>>

NextGraphql == BuildGraphql

SpecGraphql == InitGraphql /\ [][NextGraphql]_vars

----------------------------------------------------------------------------
(* update_http_response_if_id applied twice (its calls: lines 538-541,     *)
(* 568-571, 596-599, 652-655).                                             *)

\* records a send can hand to storage
UpdateRecords ==
    {[OgResponse EXCEPT !.state = st, !.error = e, !.content_length = l] :
        st \in {"Initialized", "Connected", "Closed"},
        e \in {None, Some(ChunkErrMsg)},
        l \in {None, Some(1)}}

\* the stored record, if its id still exists, and the record of the update
UpdateCalls ==
    [stored : {None} \cup {Some(r) : r \in UpdateRecords},
     record : UpdateRecords]

InitUpdate ==
    /\ Idle
    /\ arg \in UpdateCalls
    /\ result = <<>>

\* one call with arg.record; result holds storage after each call
ApplyUpdate ==
    /\ Len(result) < 2
    /\ result' = Append(result,
                        UpdateIfId(IF result = <<>> THEN arg.stored
                                   ELSE result[Len(result)],
                                   arg.record))
    /\ UNCHANGED <<arg, sendVars>>

NextUpdate == ApplyUpdate

SpecUpdate == InitUpdate /\ [][NextUpdate]_vars

----------------------------------------------------------------------------
(* The outbound headers (lines 218-262). *)

\* longest list of request headers
MaxHeaders == 2

\* HttpRequestHeader: enabled, name, value; names with and without capitals,
\* one that is not a token; values, one of them with a line feed
RequestHeaders ==
    [enabled : BOOLEAN,
     name : {"", "Accept", "accept", "x-a", "bad name"},
     value : {"", "1", "a\nb"}]

HeaderLists == UNION {[1..n -> RequestHeaders] : n \in 0..MaxHeaders}

\* HeaderName::from_str succeeds; the name is kept in lower case
ValidHeaderName(name) == name \in {"Accept", "accept", "x-a"}

LowerName(name) == IF name = "Accept" THEN "accept" ELSE name

\* HeaderValue::from_str succeeds
ValidHeaderValue(value) == value \in {"", "1"}

\* lines 219-220: the map with User-Agent and Accept
DefaultHeaders ==
    [k \in {"user-agent", "accept"} |->
        IF k = "user-agent" THEN "yaak" ELSE "*/*"]

\* HeaderMap::insert as it would be if it kept the value a name already has
HeaderInsertFirst(headers, name, value) ==
    [k \in DOMAIN headers \cup {name} |->
        IF k \in DOMAIN headers THEN headers[k] ELSE value]

\* HeaderMap::insert: the value replaces the one the name has
HeaderInsert(headers, name, value) ==
    [k \in DOMAIN headers \cup {name} |->
        IF k = name THEN value ELSE headers[k]]

\* lines 236-261: the loop over request.headers
RECURSIVE HeaderLoop(_, _)
HeaderLoop(hs, headers) ==
    IF hs = <<>> THEN headers
    ELSE LET h == Head(hs)
         IN  IF h.name = "" /\ h.value = ""
             THEN HeaderLoop(Tail(hs), headers)
             ELSE IF ~h.enabled
             THEN HeaderLoop(Tail(hs), headers)
             ELSE IF ~ValidHeaderName(h.name)
             THEN HeaderLoop(Tail(hs), headers)
             ELSE IF ~ValidHeaderValue(h.value)
             THEN HeaderLoop(Tail(hs), headers)
             ELSE HeaderLoop(Tail(hs),
                             HeaderInsert(headers, LowerName(h.name),
                                          h.value))

InitHeaders ==
    /\ Idle
    /\ arg \in HeaderLists
    /\ result = <<>>

\* lines 218-262
BuildHeaders ==
    /\ result = <<>>
    /\ result' = <<HeaderLoop(arg, DefaultHeaders)>>
    /\ UNCHANGED <<arg, sendVars>>

NextHeaders == BuildHeaders

SpecHeaders == InitHeaders /\ [][NextHeaders]_vars

----------------------------------------------------------------------------
(* The proxy of the client (lines 124-147). *)

\* proxy URLs of a setting: none, and two different ones
ProxyUrls == {"", "http://p:1", "http://q:2"}

\* ProxySettingAuth
ProxyAuths == {None, Some([user |-> "u", password |-> "p"])}

\* ProxySetting::Disabled
ProxyDisabled == [type |-> "disabled", http |-> "", https |-> "", auth |-> None]

\* ProxySetting::Enabled { http, https, auth }
ProxyEnabled ==
    [type : {"enabled"}, http : ProxyUrls, https : ProxyUrls,
     auth : ProxyAuths]

\* settings.proxy
ProxySettings == {None, Some(ProxyDisabled)} \cup {Some(p) : p \in ProxyEnabled}

\* url.scheme() of the URL a request goes to
TargetSchemes == {"http", "https", "ftp"}

\* the closure as it would be if it did not set an empty URL aside
proxy_url_unchecked(scheme, http, https) ==
    IF scheme = "http" THEN Some(http)
    ELSE IF scheme = "https" THEN Some(https)
    ELSE None

\* lines 128-135: the closure given to Proxy::custom
proxy_url(scheme, http_in, https_in) ==
    LET http == IF http_in = "" THEN None ELSE Some(http_in)
        https == IF https_in = "" THEN None ELSE Some(https_in)
    IN  IF scheme = "http" /\ http # None THEN http
        ELSE IF scheme = "https" /\ https # None THEN https
        ELSE None

\* lines 124-147: what the client does with a URL of the scheme: mode is
\* "default" when the builder is left alone, url the proxy the request uses
ClientProxy(setting, scheme) ==
    IF setting = None
    THEN [mode |-> "default", url |-> None, auth |-> None]
    ELSE IF setting[1].type = "disabled"
    THEN [mode |-> "no_proxy", url |-> None, auth |-> None]
    ELSE LET u == proxy_url(scheme, setting[1].http, setting[1].https)
         IN  [mode |-> "custom", url |-> u,
              auth |-> IF u = None THEN None ELSE setting[1].auth]

InitProxy ==
    /\ Idle
    /\ arg \in [proxy : ProxySettings, scheme : TargetSchemes]
    /\ result = <<>>

\* lines 124-147, and the client's use of the proxy for one URL
SelectProxy ==
    /\ result = <<>>
    /\ result' = <<ClientProxy(arg.proxy, arg.scheme)>>
    /\ UNCHANGED <<arg, sendVars>>

NextProxy == SelectProxy

SpecProxy == InitProxy /\ [][NextProxy]_vars

----------------------------------------------------------------------------
(* The request headers echoed on the record (lines 411-465, 496, 518-524). *)

\* request.authentication_type
AuthenticationTypes == {None, Some("basic")}

\* plugin_result.set_headers: nothing, a header of its own, one that
\* overwrites a header of the request, or both
SetHeaderLists ==
    {<<>>,
     <<[name |-> "authorization", value |-> "Basic dTpw"]>>,
     <<[name |-> "accept", value |-> "application/json"]>>,
     <<[name |-> "authorization", value |-> "Basic dTpw"],
       [name |-> "accept", value |-> "application/json"]>>}

\* lines 459-464: every header of the plugin goes into the built request
RECURSIVE SetHeaders(_, _)
SetHeaders(set_headers, req_headers) ==
    IF set_headers = <<>> THEN req_headers
    ELSE SetHeaders(Tail(set_headers),
                    HeaderInsert(req_headers, Head(set_headers).name,
                                 Head(set_headers).value))

\* lines 411-465: the headers of sendable_req when it is given to the client:
\* a clone of the header map, then what the authentication sets
SendableHeaders(headers, authentication_type, set_headers) ==
    IF authentication_type = None THEN headers
    ELSE SetHeaders(set_headers, headers)

\* lines 496 and 518-524: r.request_headers, the names and values of the
\* header map of line 218 (to_str copies a value of visible ASCII, and the
\* values here are all of that kind)
EchoedHeaders(headers) == [k \in DOMAIN headers |-> headers[k]]

InitEcho ==
    /\ Idle
    /\ arg \in [headers : HeaderLists,
                authentication_type : AuthenticationTypes,
                set_headers : SetHeaderLists]
    /\ result = <<>>

\* lines 218-465: the header map, and the request that is sent
SendRequest ==
    /\ result = <<>>
    /\ LET headers == HeaderLoop(arg.headers, DefaultHeaders)
       IN  result' = <<[headers |-> headers,
                        sent |-> SendableHeaders(headers,
                                                 arg.authentication_type,
                                                 arg.set_headers)]>>
    /\ UNCHANGED <<arg, sendVars>>

\* lines 496-525: the Connected block fills request_headers
EchoRequestHeaders ==
    /\ Len(result) = 1
    /\ result' = Append(result,
                        [request_headers |-> EchoedHeaders(result[1].headers)])
    /\ UNCHANGED <<arg, sendVars>>

NextEcho == SendRequest \/ EchoRequestHeaders

SpecEcho == InitEcho /\ [][NextEcho]_vars

----------------------------------------------------------------------------
(* The choice of the body handler (lines 264-409). *)

Urlencoded == "application/x-www-form-urlencoded"

MultipartKind == "multipart/form-data"

\* request.body_type: absent, the four kinds with a handler of their own,
\* and two kinds without one
BodyTypes ==
    {None} \cup
    {Some(k) : k \in {"graphql", Urlencoded, "binary", MultipartKind,
                      "application/json", "text/plain"}}

\* the keys request.body can hold
BodyKeys == {"query", "form", "filePath", "text"}

\* the chain as it would be if a kind were enough to choose its handler
BodyHandlerByKind(body_type, keys) ==
    IF body_type = None THEN "none"
    ELSE IF body_type[1] = "graphql" THEN "graphql"
    ELSE IF body_type[1] = Urlencoded THEN "urlencoded"
    ELSE IF body_type[1] = "binary" THEN "binary"
    ELSE IF body_type[1] = MultipartKind THEN "multipart"
    ELSE IF "text" \in keys THEN "text"
    ELSE "none"

\* lines 265-408: the branch of the if / else-if chain that runs; "none"
\* when there is no body_type, and for the last else, which only warns
BodyHandler(body_type, keys) ==
    IF body_type = None THEN "none"
    ELSE IF body_type[1] = "graphql" THEN "graphql"
    ELSE IF body_type[1] = Urlencoded /\ "form" \in keys THEN "urlencoded"
    ELSE IF body_type[1] = "binary" /\ "filePath" \in keys THEN "binary"
    ELSE IF body_type[1] = MultipartKind /\ "form" \in keys THEN "multipart"
    ELSE IF "text" \in keys THEN "text"
    ELSE "none"

\* what the chosen branch gives the request builder: body(..), form(..),
\* multipart(..), or nothing
BuilderBody(handler) == IF handler = "none" THEN None ELSE Some(handler)

InitBody ==
    /\ Idle
    /\ arg \in [body_type : BodyTypes, keys : SUBSET BodyKeys]
    /\ result = <<>>

\* lines 264-409
DispatchBody ==
    /\ result = <<>>
    /\ LET handler == BodyHandler(arg.body_type, arg.keys)
       IN  result' = <<[handler |-> handler, body |-> BuilderBody(handler)]>>
    /\ UNCHANGED <<arg, sendVars>>

NextBody == DispatchBody

SpecBody == InitBody /\ [][NextBody]_vars

----------------------------------------------------------------------------
(* Vocabulary of the properties. *)

Returned == outer_pc = "returned"

ReturnedOk == Returned /\ ret.kind = "Ok"

\* the record returned by an Ok return
Rec == ret.val[1]

\* the persist task has ended: it completed, saw the flag, or panicked
PersistEnded == persist_pc \in {"done", "stopped", "panicked"}

\* the error messages that mention cancellation
CancellationMsgs == {CancelledMsg, EphemeralCancelledMsg}

NetworkFailureMsgs == {NetworkErrMsg(e) : e \in NetworkErrors}

\* the body as the transport would deliver it in full
FullBody == Concat(raw_response.body)

\* cancellation won the first race, before the headers arrived (line 480)
CancelledBeforeHeaders == Returned /\ ret.line = 480

\* the flag was set while the body was being streamed, and the call returned
CancelledWhileStreaming == Returned /\ cancelled_at = "streaming"

\* the send ended in a cancellation branch: before the headers (line 480),
\* or during streaming (lines 654 and 658)
EndedByCancellation ==
    \/ CancelledBeforeHeaders
    \/ CancelledWhileStreaming /\ ret.line \in {654, 658}

\* the streaming task saw the flag and returned (line 558)
StreamStopped == persist_pc = "stopped"

IsPrefix(s, t) == Len(s) <= Len(t) /\ s = SubSeq(t, 1, Len(s))

----------------------------------------------------------------------------
(* Properties. *)

\* C1: every Ok return of send_http_request carries a record whose state is
\* Closed (success, transport failure, cancellation).
C1_ReturnedRecordClosed == ReturnedOk => Rec.state = "Closed"

\* C2: when client.execute fails, the returned record is Closed and carries
\* a non-empty error message.
C2_TransportFailureRecorded ==
    (ReturnedOk /\ raw_response.kind = "err")
        => (Rec.state = "Closed" /\ Rec.error # None /\ Rec.error # Some(""))

\* C3: after a cancellation during body streaming of a stored response,
\* once the outer call has returned and the streaming task has stopped, the
\* stored record is Closed.
C3_CancelledStreamStoredClosed ==
    (CancelledWhileStreaming /\ db # None /\ PersistEnded)
        => db[1].state = "Closed"

\* C4: the states written to storage only move forward: no write stores
\* Initialized or Connected after a write has stored Closed.
C4_StoredStateForward ==
    \A i, j \in 1..Len(writes) :
        (i < j /\ writes[i].rec.state = "Closed")
            => writes[j].rec.state = "Closed"

\* C5: once a Closed record has been written to storage, no later write of
\* the send changes any field of the stored record.
C5_ClosedRecordFrozen ==
    \A i, j \in 1..Len(writes) :
        (i < j /\ writes[i].rec.state = "Closed")
            => writes[j].rec = writes[i].rec

\* C6: when cancellation wins before the headers arrive, no write with
\* state Connected is ever made to storage, and the returned record's error
\* mentions cancellation.
C6_CancelledBeforeHeaders ==
    CancelledBeforeHeaders =>
        /\ \A i \in 1..Len(writes) : writes[i].rec.state # "Connected"
        /\ ret.kind = "Ok"
        /\ Rec.error \in {Some(m) : m \in CancellationMsgs}

\* C6 witness: cancellation won the first race before the network task had
\* answered, the record is stored, and the detached network task has since
\* completed and its result was dropped.
C6_Witness ==
    /\ CancelledBeforeHeaders
    /\ db # None
    /\ raw_response = NoResponse
    /\ net_pc = "done"
    /\ resp_tx = "dropped"

\* C7: whenever a send ends because of cancellation, before the headers or
\* during streaming, the returned record's error is a cancellation message,
\* and no cancellation message is a network-failure message.
C7_CancellationErrorDistinct ==
    /\ CancellationMsgs \cap NetworkFailureMsgs = {}
    /\ EndedByCancellation =>
         (ret.kind = "Ok" /\ Rec.error \in {Some(m) : m \in CancellationMsgs})

\* C8 as stated: when the streaming task stops on the flag, the body file is
\* a proper prefix of the full body.
C8_FileStrictPrefix ==
    (StreamStopped /\ cancelled_at = "streaming")
        => (IsPrefix(file, FullBody) /\ file # FullBody)

\* C8 amended: when the streaming task stops on the flag, the body file holds
\* exactly the chunks processed before the flag was seen, in arrival order
\* and with nothing after them: a prefix of the full body, proper unless
\* every chunk had already been written.
C8_FilePrefix ==
    StreamStopped =>
        /\ file = Concat(SubSeq(raw_response.body, 1, pos))
        /\ IsPrefix(file, FullBody)
        /\ (file # FullBody <=> pos < Len(raw_response.body))

\* C8 witness: the flag was seen with one chunk of two written, the pulled
\* second chunk was dropped, and the outer call has returned.
C8_Witness ==
    /\ StreamStopped
    /\ cancelled_at = "streaming"
    /\ Returned
    /\ chunk = "some"
    /\ pos = 1
    /\ Len(raw_response.body) = 2
    /\ file = raw_response.body[1]

\* C9: the Connected write precedes the first per-chunk write, and every
\* per-chunk write precedes every Closed write of the record.
C9_WriteOrder ==
    \A j \in 1..Len(writes) :
        writes[j].by = "chunk" =>
            /\ \E i \in 1..(j - 1) : writes[i].by = "connected"
            /\ \A i \in 1..(j - 1) : writes[i].rec.state # "Closed"

\* C10: after a chunk-read error the send still returns, and the record
\* returned and the record finally stored are Closed and carry the
\* chunk-read error message.
C10_ChunkErrorRecorded ==
    (chunk = "err" /\ Returned /\ ret.line = 649) =>
        /\ Rec.state = "Closed"
        /\ Rec.error = Some(ChunkErrMsg)
        /\ db # None => (db[1].state = "Closed"
                          /\ db[1].error = Some(ChunkErrMsg))

\* the return lines of the failures between the creation of the response
\* object and the headers: render, URL parse, method parse, body file read,
\* multipart mime, request build, authentication
PreHeaderFailureLines == {78, 193, 205, 215, 312, 343, 360, 418, 449}

\* the return lines of cookie store construction and client build
ConfigurationFailureLines == {163, 179}

\* C11: every failure between the creation of the response object and the
\* headers returns Ok with a Closed record that carries an error, and an Err
\* return comes only from cookie store construction or client build.
C11_PreHeaderFailureReturnsOk ==
    Returned =>
        /\ ret.line \in PreHeaderFailureLines =>
              (ret.kind = "Ok" /\ Rec.state = "Closed" /\ Rec.error # None)
        /\ ret.kind = "Err" => ret.line \in ConfigurationFailureLines

\* no client has been executed and no task has been spawned
NoNetworkActivity ==
    /\ net_pc = "none"
    /\ persist_pc = "none"
    /\ raw_response = NoResponse
    /\ resp_tx = "open"

\* C12: when rendering fails the call returns Ok with a Closed record whose
\* error is the render error's message, and no client is executed and no
\* network task is spawned.
C12_RenderFailure ==
    (Returned /\ ret.line = 78) =>
        /\ ret.kind = "Ok"
        /\ Rec.state = "Closed"
        /\ failure[1] \in RenderErrors
        /\ Rec.error = failure
        /\ NoNetworkActivity

\* C12 witness: rendering failed with the second message, the record is
\* stored and the call has returned.
C12_Witness ==
    /\ Returned
    /\ ret.line = 78
    /\ failure = Some("invalid template")
    /\ db # None
    /\ Len(writes) = 1

\* C13: when the URL fails to parse the call returns Ok with a Closed record
\* that carries the parse error, and the network task is never spawned.
C13_MalformedUrl ==
    (Returned /\ ret.line \in {193, 205}) =>
        /\ ret.kind = "Ok"
        /\ Rec.state = "Closed"
        /\ Rec.error = Some(UrlErrMsg(failure[1]))
        /\ NoNetworkActivity

\* C13 witness: the URI parsed, the URL did not, and the call has returned
\* with the client built.
C13_Witness ==
    /\ Returned
    /\ ret.line = 205
    /\ failure = Some(UrlError)
    /\ cookie_store # {}

\* a send that ran to the end of the stream and returned the final record
SuccessfulSend ==
    /\ Returned
    /\ ret.line = 649
    /\ raw_response.kind = "ok"
    /\ chunk = "none"

\* C14: after a successful send whose response declared no content length,
\* the returned Closed record's content_length is the number of bytes
\* written to the body file.
C14_LengthIsBytesWritten ==
    (SuccessfulSend /\ raw_response.content_length = None) =>
        /\ Rec.state = "Closed"
        /\ Rec.content_length = Some(Len(file))

\* C15: once the body file is open or holds a byte, the shared record's
\* body_path is the path of that file.
C15_BodyPathBeforeBytes ==
    (file_open \/ file # <<>>) => response.body_path = Some(BodyPath)

\* C15 witness: a chunk is in the file while the stream is still being read.
C15_Witness ==
    /\ file # <<>>
    /\ persist_pc = "loop"
    /\ response.body_path = Some(BodyPath)

HttpsHost(host) ==
    host \in ValidHosts /\ \E tld \in HttpsTlds : EndsWith(host, tld)

\* C16: ensure_proto returns a URL that starts with http:// or https://
\* unchanged; a URL without a scheme gets https:// when its host ends in
\* .app, .dev or .page and http:// otherwise; example.dev becomes
\* https://example.dev, example.com becomes http://example.com, and
\* https://x.test stays as it is.
C16_EnsureProto ==
    result # <<>> =>
        LET u == UrlString(arg)
            r == result[1]
        IN  /\ arg.scheme # <<>> => r = u
            /\ (arg.scheme = <<>> /\ HttpsHost(arg.host)) =>
                  r = HttpsPrefix \o u
            /\ (arg.scheme = <<>> /\ ~HttpsHost(arg.host)) =>
                  r = HttpPrefix \o u
            /\ u = ExampleDev => r = HttpsPrefix \o ExampleDev
            /\ u = ExampleCom => r = HttpPrefix \o ExampleCom
            /\ u = HttpsPrefix \o XTest => r = HttpsPrefix \o XTest

\* C16 witness: a URL without a scheme whose host is example.com and whose
\* path ends in .dev has been given http://.
C16_Witness ==
    /\ arg = [scheme |-> <<>>, host |-> ExampleCom, rest |-> <<"/", "a", ".", "d", "e", "v">>]
    /\ Len(result) = 2
    /\ result[2] = HttpPrefix \o ExampleCom \o <<"/", "a", ".", "d", "e", "v">>

\* an entry that is enabled and has a name
Eligible(p) == p.enabled # "false" /\ p.name # ""

\* C18: in a multipart body that is built, the disabled and the unnamed
\* entries give no part and every other entry gives exactly one, in array
\* order; a file part without a contentType has the mime type guessed from
\* its path, application/octet-stream when there is no guess; an explicit
\* contentType always wins.
C18_MultipartParts ==
    (result # <<>> /\ result[1].kind = "form") =>
        LET el == SelectSeq(arg, Eligible)
            parts == result[1].parts
        IN  /\ Len(parts) = Len(el)
            /\ \A i \in 1..Len(el) :
                 /\ parts[i].name = el[i].name
                 /\ parts[i].body =
                        (IF el[i].file = "" THEN <<"text", el[i].value>>
                         ELSE <<"bytes", el[i].file>>)
                 /\ el[i].contentType # "" =>
                        parts[i].mime = Some(el[i].contentType)
                 /\ (el[i].contentType = "" /\ el[i].file = "pic.png") =>
                        parts[i].mime = Some("image/png")
                 /\ (el[i].contentType = "" /\ el[i].file = "data.zzz") =>
                        parts[i].mime = Some("application/octet-stream")

\* C18 witness: a form of a disabled entry and a file entry with an explicit
\* contentType has given one part, of that type.
C18_Witness ==
    /\ result # <<>>
    /\ Len(arg) = 2
    /\ arg[1].enabled = "false" /\ arg[1].name = "a"
    /\ arg[2].enabled = "absent" /\ arg[2].name = "a"
    /\ arg[2].file = "pic.png" /\ arg[2].contentType = "text/plain"
    /\ result[1].kind = "form"
    /\ Len(result[1].parts) = 1
    /\ result[1].parts[1].mime = Some("text/plain")

\* a reader of JSON string literals: from position i of text, inside a
\* literal, the characters read so far; the value of the literal and the
\* text after its closing quote
RECURSIVE ReadJsonString(_, _, _)
ReadJsonString(text, i, value) ==
    IF i > Len(text) THEN [closed |-> FALSE, value |-> value, rest |-> <<>>]
    ELSE IF text[i] = Quote
    THEN [closed |-> TRUE, value |-> value,
          rest |-> SubSeq(text, i + 1, Len(text))]
    ELSE IF text[i] = Backslash /\ i < Len(text)
    THEN ReadJsonString(text, i + 2,
             Append(value, IF text[i + 1] = "n" THEN Newline ELSE text[i + 1]))
    ELSE ReadJsonString(text, i + 1, Append(value, text[i]))

\* C19: the GraphQL body is a JSON object whose first key is query, with
\* the query as a JSON string literal; with blank variables the object ends
\* there, otherwise the text of variables follows as the value of the key
\* variables, as it is.
C19_GraphqlBody ==
    result # <<>> =>
        LET body == result[1]
            query == IF arg.query = None THEN <<>> ELSE arg.query[1]
            variables == IF arg.variables = None THEN <<>>
                         ELSE arg.variables[1]
            after == SubSeq(body, Len(QueryKey) + 1, Len(body))
            lit == ReadJsonString(after, 2, <<>>)
        IN  /\ StartsWith(body, QueryKey)
            /\ after # <<>> /\ after[1] = Quote
            /\ lit.closed
            /\ lit.value = query
            /\ IsBlank(variables) => lit.rest = <<"}">>
            /\ ~IsBlank(variables) =>
                  lit.rest = VariablesKey \o variables \o <<"}">>

\* C19 witness: a query of a quote and a newline went out with variables
\* that have blanks around them.
C19_Witness ==
    /\ arg.query = Some(<<Quote, Newline>>)
    /\ arg.variables = Some(<<" ", "{", Quote, "x", Quote, ":", "1", "}", " ">>)
    /\ result # <<>>
    /\ result[1] = QueryKey \o <<Quote, Backslash, Quote, Backslash, "n", Quote>>
                     \o VariablesKey \o <<" ", "{", Quote, "x", Quote, ":", "1", "}", " ">> \o <<"}">>

C21_NoInterleavedWrite ==
    outer_pc = "cancel_write" => db = outer_r

\* C22: once cancellation has won before the headers and the cancelled
\* record has been returned, no step, the completion of the network task
\* included, writes to storage, to the body file or to the jar.
C22_DetachedResultDropped ==
    [][CancelledBeforeHeaders =>
         UNCHANGED <<db, writes, file_open, file, jar_db, jar_writes,
                     persist_pc>>]_vars

\* C22 witness: the cancelled record of a send with a jar was stored and
\* returned, and the network task has completed since.
C22_Witness ==
    /\ CancelledBeforeHeaders
    /\ cookie_jar # None
    /\ Len(writes) = 1
    /\ writes[1].rec.error = Some(CancelledMsg)
    /\ net_pc = "done"
    /\ resp_tx = "dropped"

\* C23: once the streaming task has seen the flag set it does nothing more:
\* the file, the shared record and the jar stay as they are, the shared
\* record is not Closed, the jar has not been stored, and storage is written
\* by the outer caller only.
C23_StoppedWithoutFinalizing ==
    /\ [](StreamStopped => (response.state # "Closed" /\ jar_writes = 0))
    /\ [][StreamStopped =>
            /\ UNCHANGED <<persist_pc, file, response, jar_db, jar_writes,
                           done_tx>>
            /\ writes' # writes =>
                  outer_pc \in {"cancel_write", "cancel_ephemeral"}]_vars

\* C23 witness: the task stopped with one chunk of two in the file, and the
\* outer caller has since closed the stored record.
C23_Witness ==
    /\ StreamStopped
    /\ pos = 1
    /\ Len(raw_response.body) = 2
    /\ ret.line = 654
    /\ response.state = "Connected"
    /\ db # None /\ db[1].state = "Closed"

\* the body stream has ended, by its last chunk or by a chunk-read error,
\* and the final block has run
StreamEnded ==
    /\ raw_response.kind = "ok"
    /\ persist_pc \in {"cookies", "clone", "done", "panicked"}

\* the declared length when there is one, the bytes written otherwise
FinalLength ==
    IF raw_response.content_length # None THEN raw_response.content_length
    ELSE Some(Len(file))

\* C24: after the stream has ended the record's content_length is the
\* declared length when the response declared one and the number of bytes
\* written otherwise, and the write of the final block stores it together
\* with state Closed.
C24_FinalContentLength ==
    StreamEnded =>
        /\ response.state = "Closed"
        /\ response.content_length = FinalLength
        /\ \A j \in 1..Len(writes) :
             writes[j].by = "closed" =>
                 /\ writes[j].rec.state = "Closed"
                 /\ writes[j].rec.content_length = FinalLength

\* C25: a malformed header returned by the authentication plugin does not
\* make the send panic.
C25_MalformedAuthHeaderSkipped ==
    (Returned /\ failure = Some(MalformedHeaderError)) => ret.kind # "Panic"

\* C26: a body file that cannot be read, of a binary body (line 312) or of
\* a multipart part (line 343), returns Ok with a Closed record that carries
\* the read error; no network task is spawned and nothing panics.
C26_FileReadFailure ==
    (Returned /\ failure = Some(ReadError)) =>
        /\ ret.kind = "Ok"
        /\ ret.line \in {312, 343}
        /\ Rec.state = "Closed"
        /\ Rec.error = Some(ReadError)
        /\ NoNetworkActivity

\* C26 witness: the file of a multipart part could not be read, and the
\* error record is stored.
C26_Witness ==
    /\ Returned
    /\ ret.line = 343
    /\ failure = Some(ReadError)
    /\ db = Some(Rec)

\* C27: a failure while the transport is built, in the jar's cookies or in
\* the client build, ends the call with Err before the network task is
\* spawned, and nothing is written to storage.
C27_TransportBuildFailure ==
    (Returned /\ failure \in {Some(CookieError), Some(ClientBuildError)}) =>
        /\ ret.kind = "Err"
        /\ writes = <<>>
        /\ NoNetworkActivity

\* C28: a cookie of the jar that cannot be converted makes the call return
\* Err; it does not panic.
C28_CookieConversionFailure ==
    (Returned /\ failure = Some(CookieError)) => ret.kind = "Err"

\* C29: with a jar supplied, after the stream has ended the stored jar holds
\* all cookies of the cookie store, or is as it was when its write failed;
\* either way the task goes on to send its Closed record, which the call
\* returns at line 649.
C29_JarSync ==
    /\ (cookie_jar # None /\ StreamEnded /\ persist_pc # "cookies") =>
          /\ jar_writes = 1 => Range(jar_db) = cookie_store
          /\ jar_writes = 0 => jar_db = cookie_jar[1]
          /\ Len(jar_db) = Cardinality(Range(jar_db))
    /\ (StreamEnded /\ persist_pc = "done") =>
          (done_tx # None /\ done_tx[1].state = "Closed")
    /\ (StreamEnded /\ persist_pc = "panicked") => cancelled
    /\ (StreamEnded /\ Returned /\ ret.line = 649) => Rec.state = "Closed"

\* C29 witness: the response set a cookie, the write of the jar failed, and
\* the call returned the Closed record at line 649.
C29_Witness ==
    /\ cookie_jar = Some(<<SidCookie>>)
    /\ raw_response.set_cookies # {}
    /\ cookie_store = raw_response.set_cookies
    /\ jar_writes = 0
    /\ jar_db = <<SidCookie>>
    /\ Returned
    /\ ret.line = 649
    /\ Rec.state = "Closed"

\* the entries of the list that are enabled and carry the name k
EnabledFor(k) ==
    {i \in DOMAIN arg :
        arg[i].enabled /\ ValidHeaderName(arg[i].name)
                       /\ LowerName(arg[i].name) = k}

\* the entries that are enabled, not blank, and valid in name and value
ContributingFor(k) ==
    {i \in EnabledFor(k) : ValidHeaderValue(arg[i].value)}

Last(set) == CHOOSE i \in set : \A j \in set : j <= i

----------------------------------------------------------------------------
\* C31: with an enabled proxy setting a request to an http URL goes through
\* the setting's http proxy when that URL is not empty, a request to an https
\* URL through the https proxy when that URL is not empty, and every other
\* request (empty URL for its scheme, or another scheme) through no proxy;
\* with a disabled setting no request goes through a proxy.
C31_ProxySelection ==
    (result # <<>> /\ arg.proxy # None) =>
        LET p == arg.proxy[1]
            r == result[1]
        IN  /\ p.type = "disabled" => r.mode = "no_proxy" /\ r.url = None
            /\ p.type = "enabled" =>
                 /\ (arg.scheme = "http" /\ p.http # "")
                        => r.url = Some(p.http)
                 /\ (arg.scheme = "https" /\ p.https # "")
                        => r.url = Some(p.https)
                 /\ (arg.scheme = "http" /\ p.http = "") => r.url = None
                 /\ (arg.scheme = "https" /\ p.https = "") => r.url = None
                 /\ arg.scheme \notin {"http", "https"} => r.url = None

\* an http request under a setting whose http URL is empty and whose https
\* URL is set has been decided: it uses no proxy
C31_Witness ==
    /\ result # <<>>
    /\ arg.proxy # None
    /\ arg.proxy[1].type = "enabled"
    /\ arg.scheme = "http"
    /\ arg.proxy[1].http = ""
    /\ arg.proxy[1].https # ""
    /\ result[1].url = None

----------------------------------------------------------------------------
\* C32: every call that has launched the network task eventually returns,
\* whether or not the cancellation signal changes: also when the persist
\* task ends without sending on its completion channel.
C32_CallReturns == (net_pc # "none") ~> Returned

----------------------------------------------------------------------------
\* C33: when the call returns a record and the response id exists in
\* storage, the returned record equals the stored record at that moment in
\* state, error and content_length.
C33_ReturnedEqualsStored ==
    [][(outer_pc # "returned" /\ outer_pc' = "returned" /\ ret'.kind = "Ok"
            /\ db' # None)
        => /\ ret'.val[1].state = db'[1].state
           /\ ret'.val[1].error = db'[1].error
           /\ ret'.val[1].content_length = db'[1].content_length]_vars

----------------------------------------------------------------------------
\* C34: no interleaving of the persist task with the outer caller deadlocks
\* on the record's lock: the lock, once taken, is released; the outer caller
\* that needs it for the ephemeral cancellation is served and returns; and
\* the holder of the lock is never at a point that asks for it again.
C34_NoLockDeadlock ==
    /\ (lock = "persist") ~> (lock = "free")
    /\ (outer_pc = "cancel_ephemeral") ~> Returned
    /\ [](lock = "persist" => persist_pc \in {"chunk_write", "chunk_update"})

\* the outer caller wants the lock for its ephemeral cancellation while the
\* persist task holds it in the middle of a chunk
C34_Witness ==
    /\ outer_pc = "cancel_ephemeral"
    /\ lock = "persist"
    /\ persist_pc = "chunk_update"

----------------------------------------------------------------------------
\* the per-chunk writes made to storage so far, in order
ChunkWrites == SelectSeq(writes, LAMBDA w : w.by = "chunk")

\* the bytes of the first k chunks of the body
BytesOfChunks(k) == Len(Concat(SubSeq(raw_response.body, 1, k)))

\* C35: at every per-chunk storage write the stored content_length is the
\* total number of bytes written and flushed so far, and it never decreases
\* from one chunk write to the next.
C35_RunningLength ==
    /\ \A k \in 1..Len(ChunkWrites) :
         ChunkWrites[k].rec.content_length = Some(BytesOfChunks(k))
    /\ \A j, k \in 1..Len(ChunkWrites) :
         j < k => ChunkWrites[j].rec.content_length[1]
                    <= ChunkWrites[k].rec.content_length[1]

----------------------------------------------------------------------------
\* a Closed write of the persist task's final block is in storage's history
ClosedWritten == \E i \in DOMAIN writes : writes[i].by = "closed"

\* the sends on which the jar must stay unwritten: the transport failed, or
\* the flag was set before the stream had ended
JarUntouchedCases ==
    \/ raw_response.kind = "err"
    \/ CancelledBeforeHeaders
    \/ StreamStopped
    \/ cancelled_at \in {"before_headers", "connected", "streaming"}

\* C36 as stated: the jar is written at most once per send, only after the
\* Closed write of a body stream that was read to its end; on a transport
\* failure and on cancellation before or during streaming it is not written.
C36_JarOnlyAfterCompletedStream ==
    /\ jar_writes <= 1
    /\ jar_writes = 1 =>
         /\ chunk = "none"
         /\ response.state = "Closed"
         /\ db # None => ClosedWritten
    /\ JarUntouchedCases => jar_writes = 0

\* C36: the jar is written at most once per send, only after the Closed write
\* that follows the end of the body stream, whether the stream was read to
\* its end or was cut short by a chunk-read error; on a transport failure and
\* on cancellation before or during streaming it is not written, whatever
\* the cookie store has absorbed.
C36_JarOnlyAfterEndedStream ==
    /\ jar_writes <= 1
    /\ jar_writes = 1 =>
         /\ chunk \in {"none", "err"}
         /\ persist_pc \in {"clone", "done", "panicked"}
         /\ response.state = "Closed"
         /\ db # None => ClosedWritten
    /\ JarUntouchedCases => jar_writes = 0

\* C36 witness: the stream was cut short by a chunk-read error after the
\* cookie store took a cookie of the response, and the jar has been written.
C36_Witness ==
    /\ chunk = "err"
    /\ cookie_store # {}
    /\ jar_writes = 1
    /\ response.state = "Closed"

----------------------------------------------------------------------------
\* C37: the request headers echoed on the Connected record are the headers
\* of the request that was sent, with what the authentication step added or
\* overwrote.
C37_EchoedHeadersAreSent ==
    Len(result) = 2 => result[2].request_headers = result[1].sent

----------------------------------------------------------------------------
\* the lengths the record may truly carry: the bytes written so far, or the
\* length the transport declared
TrueLengths ==
    {Some(written_bytes)} \cup
    (IF raw_response.content_length = None THEN {}
     ELSE {raw_response.content_length})

\* C38: the content_length of the record, shared or stored, is never
\* negative and is the true length: a declared length or a byte count that
\* does not fit 31 bits is not wrapped or truncated on its way to the field.
C38_LengthNotWrapped ==
    /\ response.content_length # None =>
         /\ response.content_length[1] >= 0
         /\ response.content_length \in TrueLengths
    /\ \A i \in DOMAIN writes :
         writes[i].rec.content_length # None =>
             writes[i].rec.content_length[1] >= 0

----------------------------------------------------------------------------
\* C39: on every send that completed successfully the Closed record's total
\* elapsed time is at least its time to the headers, also when the stream
\* ended without a chunk.
C39_ElapsedCoversHeaders ==
    SuccessfulSend =>
        /\ Rec.state = "Closed"
        /\ Rec.elapsed >= Rec.elapsed_headers

----------------------------------------------------------------------------
\* the field a kind's handler needs
RequiredField(kind) ==
    CASE kind = Urlencoded -> "form"
      [] kind = "binary" -> "filePath"
      [] kind = MultipartKind -> "form"

\* the handler of a kind
HandlerOf(kind) ==
    CASE kind = Urlencoded -> "urlencoded"
      [] kind = "binary" -> "binary"
      [] kind = MultipartKind -> "multipart"

\* C40: one handler at most is chosen; a declared kind urlencoded, binary or
\* multipart whose required field (form, filePath) is missing is not an
\* error and gets no body of that kind: the text handler runs when there is
\* a text field, and otherwise the request goes on with no body.
C40_BodyDispatch ==
    (result # <<>> /\ arg.body_type # None) =>
        LET kind == arg.body_type[1]
            r == result[1]
        IN  /\ r.handler \in {"graphql", "urlencoded", "binary", "multipart",
                              "text", "none"}
            /\ (kind \in {Urlencoded, "binary", MultipartKind}
                    /\ RequiredField(kind) \notin arg.keys) =>
                 /\ r.handler # HandlerOf(kind)
                 /\ r.body # Some(HandlerOf(kind))
                 /\ "text" \in arg.keys
                        => r.handler = "text" /\ r.body = Some("text")
                 /\ "text" \notin arg.keys
                        => r.handler = "none" /\ r.body = None
            /\ (kind \in {Urlencoded, "binary", MultipartKind}
                    /\ RequiredField(kind) \in arg.keys) =>
                 r.handler = HandlerOf(kind)

\* C40 witness: a binary request without filePath, with a form and a text
\* field, was given the text body.
C40_Witness ==
    /\ result # <<>>
    /\ arg.body_type = Some("binary")
    /\ arg.keys = {"text", "form"}
    /\ result[1].handler = "text"

====
